---- MODULE Spec2Model ----
(***************************************************************************)
(* Session / connection lifecycle of the Block ID SDK.                     *)
(*                                                                         *)
(* ApiSession (src/src/api/ApiSession.ts:1-103) and Api (same file,        *)
(* lines 105-585) are modelled from their code.  ApiConnection, the Device *)
(* and the backend are not part of the sources at hand: the connection is  *)
(* modelled from its contract (open / close / send and the three states),  *)
(* the device is an address that may change, the backend answers each      *)
(* request with data or with nothing.                                      *)
(*                                                                         *)
(* Sdk (src/src/sdk/Sdk.ts) is modelled from its code where it holds the   *)
(* secure action, wires the muted$ / event$ / acceptedAction$ subscribers  *)
(* and replaces the account attributes.  Linker, Account and Device are    *)
(* not at hand: a link url is the action it carries, a signature is the    *)
(* pair of the signing address and the hash signed.                        *)
(*                                                                         *)
(* JavaScript runs one task at a time: every action below is one task (a   *)
(* public call, one subscriber cascade of an rxjs next(), the resumption   *)
(* of an awaited promise, a timer tick, a socket event).                   *)
(***************************************************************************)
EXTENDS Integers, Sequences, FiniteSets, Bags, TLC

\* ------------------------------------------------------------- bounds
MaxCalls == 2        \* createSession calls in flight at once
MaxTimers == 2       \* distinct live interval handles
MaxTasks == 2        \* Sdk handlers waiting on a promise at once

\* ------------------------------------------------------------- values
NULL == "null"

Destroyed == "Destroyed"
Verifying == "Verifying"
Verified == "Verified"
ApiSessionStates == {Destroyed, Verifying, Verified}

Closed == "Closed"
Connecting == "Connecting"
Opened == "Opened"
ApiConnectionStates == {Closed, Connecting, Opened}

Addresses == {"a1", "a2"}
Hashes == {"h1"}
Tokens == {"t1"}

\* IApiOptions: null, or the two fields the Api reads.
NoOptions == [present |-> FALSE, manualAuth |-> FALSE, reconnectTimeout |-> 0]
OptionValues ==
  {NoOptions} \cup
  {[present |-> TRUE, manualAuth |-> m, reconnectTimeout |-> r] :
     m \in BOOLEAN, r \in {0, 1}}

VARIABLES
  options,            \* Api.options$ value
  endpoints,          \* Api.endpoints
  address,            \* device.address
  session,            \* ApiSession attributes {state, token}
  connState,          \* connection.state
  muted,              \* connection.muted
  reconnectInterval,  \* Api.reconnectInterval (0: null)
  timers,             \* interval handles that are still live
  calls,              \* createSession invocations in flight (a bag)
  ev,                 \* what the last task did (observation only)
  secureAction,       \* Sdk.secureAction
  account,            \* Sdk.account.attributes
  accountDevice,      \* Sdk.accountDevice.attributes
  tasks,              \* Sdk handlers waiting on a promise (a bag)
  subscribed,         \* the Sdk's subscription to api.event$ is alive
  muteAck,            \* the relay's answer to a mute-connection frame, on its way
  sdkEv               \* what the last task did in the Sdk (observation only)

vars == <<options, endpoints, address, session, connState, muted,
          reconnectInterval, timers, calls, ev,
          secureAction, account, accountDevice, tasks, subscribed, muteAck,
          sdkEv>>

\* The connection-muted event the relay answers a mute-connection frame
\* with, while it is on its way: none, or the one owed to the oldest
\* unanswered frame, asked for by a cancel made under the challenge of now
\* (Fresh) or before that challenge was created (Late). It travels on the
\* connection and is lost with it.
NoAck == "none"
Fresh == "fresh"
Late == "late"

\* ISdkSecureAction: null, or {type, hash}.
NoSecureAction == [type |-> NULL, hash |-> NULL]

CreateAccountDevice == "CreateAccountDevice"
AccountDeviceCreated == "AccountDeviceCreated"
Secure == "Secure"
LinkerActionsTypes == {CreateAccountDevice, AccountDeviceCreated, Secure}

Device == "Device"
App == "App"
LinkerActionSenderTypes == {Device, App}

Nonces == {"n1", "n2"}          \* values of randomBytes(16)
NetworkVersion == "net"         \* network.version

\* IAccountAttributes / IAccountDeviceAttributes: null, or the name and the
\* content (rev stands for everything but the name).
EnsNames == {"e1", "e2"}
Revs == {1, 2}
NoAccount == [ensName |-> NULL, rev |-> 0]
NoAccountDevice == [rev |-> 0]
AccountAttributes == [ensName : EnsNames, rev : Revs]
AccountDeviceAttributes == [rev : Revs]

\* One handler waiting on a promise: which one, where it waits, what it holds.
NoTask == [kind |-> "none", pc |-> "none", ensName |-> NULL, hash |-> NULL,
           recipient |-> NULL, signer |-> NULL, got |-> NoAccount]

NoSdkEv == [op |-> "none", found |-> NoSecureAction, emitted |-> <<>>,
            url |-> <<>>, errs |-> <<>>, report |-> FALSE, task |-> <<>>,
            started |-> NoTask]

\* ------------------------------------------------------------- ApiSession
prepareAttributes(attributes) ==
  LET result == [state |-> Destroyed, token |-> NULL]
  IN IF attributes = <<>>
       THEN result
       ELSE [k \in DOMAIN result |->
               IF k \in DOMAIN attributes THEN attributes[k] ELSE result[k]]

setAsVerifying(token) == prepareAttributes([token |-> token, state |-> Verifying])

setAsVerifiedNoToken(token) == prepareAttributes([token |-> NULL, state |-> Verified])

setAsVerified(token) == prepareAttributes([token |-> token, state |-> Verified])

setAsDestroyed == prepareAttributes(<<>>)

verified(sess) == sess.state = Verified

\* ------------------------------------------------------------- task snapshot
NoOpen == [by |-> "none", ws |-> NULL, token |-> NULL, sess |-> "none"]
NoDone == [outcome |-> "none", auto |-> FALSE, threw |-> NULL, errs |-> 0]
NoFrame == <<>>
NoSend == [type |-> "none", err |-> NULL, frame |-> NoFrame,
           before |-> <<>>]

\* The mutable part of the Api a task works on, with what the task has
\* done so far (state$ emissions, connection.open calls, cleared timers).
Snapshot ==
  [sess |-> session, conn |-> connState, ri |-> reconnectInterval,
   timers |-> timers, emits |-> <<>>, open |-> NoOpen, cleared |-> FALSE,
   closed |-> FALSE, threw |-> NULL, overflow |-> FALSE]

\* session.attributes = ...; state$ emits when the state differs.
SetSession(a, attrs) ==
  [a EXCEPT !.sess = attrs,
            !.emits = IF attrs.state # a.sess.state THEN Append(@, attrs.state) ELSE @]

\* path: the session states state$ went through in the task, from the state
\* the task found (empty when the task left the state alone).
Commit(a, done, send) ==
  /\ ~a.overflow
  /\ session' = a.sess
  /\ connState' = a.conn
  /\ reconnectInterval' = a.ri
  /\ timers' = a.timers
  /\ ev' = [path |-> IF a.emits = <<>> THEN <<>> ELSE <<session.state>> \o a.emits,
            open |-> a.open, cleared |-> a.cleared, closed |-> a.closed,
            done |-> done, send |-> send]

\* ------------------------------------------------------------- connection
\* connection.open(endpoint, token): any previous socket is dropped.
connectionOpen(a, by, ws, token) ==
  [a EXCEPT !.conn = Connecting,
            !.open = [by |-> by, ws |-> ws, token |-> token, sess |-> a.sess.state]]

connectionClose(a) == [a EXCEPT !.conn = Closed]

connectionOpened(conn) == conn = Opened

\* ------------------------------------------------------------- Api helpers
buildEndpoint(protocol, opts) ==
  IF opts.present THEN <<protocol, "localhost">> ELSE <<>>

clearInterval(a) ==
  IF a.ri # 0
    THEN [a EXCEPT !.timers = @ \ {a.ri}, !.cleared = @ \/ (a.ri \in a.timers)]
    ELSE a

FreshTimers(a) == {i \in 1..MaxTimers : i \notin a.timers /\ i # a.ri}

setInterval(a) ==
  IF FreshTimers(a) = {}
    THEN [a EXCEPT !.overflow = TRUE]
    ELSE LET t == CHOOSE i \in FreshTimers(a) : TRUE
         IN [a EXCEPT !.ri = t, !.timers = @ \cup {t}]

openConnectionInverted(a, opts, endp) ==
  LET c == clearInterval(a)
  IN IF endp.ws = <<>> THEN [c EXCEPT !.threw = "UnknownWsEndpoint"]
     ELSE IF verified(c.sess) THEN c
     ELSE LET o == connectionOpen(c, "openConnection", endp.ws, c.sess.token)
          IN IF opts.reconnectTimeout # 0 THEN setInterval(o) ELSE o

openConnectionNoClear(a, opts, endp) ==
  IF endp.ws = <<>> THEN [a EXCEPT !.threw = "UnknownWsEndpoint"]
  ELSE IF ~verified(a.sess) THEN a
  ELSE LET o == connectionOpen(a, "openConnection", endp.ws, a.sess.token)
       IN IF opts.reconnectTimeout # 0 THEN setInterval(o) ELSE o

openConnection(a, opts, endp) ==
  LET c == clearInterval(a)
  IN IF endp.ws = <<>> THEN [c EXCEPT !.threw = "UnknownWsEndpoint"]
     ELSE IF ~verified(c.sess) THEN c
     ELSE LET o == connectionOpen(c, "openConnection", endp.ws, c.sess.token)
          IN IF opts.reconnectTimeout # 0 THEN setInterval(o) ELSE o

closeConnectionNoClear(a) == [connectionClose(a) EXCEPT !.closed = TRUE]

closeConnection(a) == [connectionClose(clearInterval(a)) EXCEPT !.closed = TRUE]

destroySession(a) == closeConnection(SetSession(a, setAsDestroyed))

canAuth(opts, addr) == opts.present /\ addr # NULL /\ ~opts.manualAuth

\* A task of the Api alone: the Sdk's own state stays.
SdkIdle ==
  /\ UNCHANGED <<secureAction, account, accountDevice, tasks, subscribed>>
  /\ muteAck' = IF connState' = Opened THEN muteAck ELSE NoAck
  /\ sdkEv' = NoSdkEv

\* ------------------------------------------------------------- createSession
\* One invocation: where it waits, who started it, what it holds so far.
FreshCall == [pc |-> "hash", auto |-> FALSE, hash |-> NULL, signer |-> NULL,
              signature |-> <<>>]

InFlight == BagToSet(calls)

CanStart == BagCardinality(calls) < MaxCalls

Replace(c, d) == (calls (-) SetToBag({c})) (+) SetToBag({d})

Finish(c) == calls (-) SetToBag({c})

\* No resumed promise is waiting: timers and network events run only then.
NoMicrotask == \A c \in InFlight : c.pc # "rejected"

\* line 245, and createSessionHash -> call() up to its first await.
createSessionStart(a) == SetSession(a, setAsVerifying(NULL))

NewCall(auto, endp) ==
  [FreshCall EXCEPT !.pc = IF endp.http = <<>> THEN "rejected" ELSE "hash",
                   !.auto = auto]

createSessionCatchKeep(a) == a

\* catch (err) { this.session.setAsDestroyed(); }
createSessionCatch(a) == SetSession(a, setAsDestroyed)

\* error$.wrapAsync forwards a rejection of createSession to Api.error$.
Done(outcome, auto, a) ==
  [outcome |-> outcome, auto |-> auto, threw |-> a.threw,
   errs |-> IF auto /\ a.threw # NULL THEN 1 ELSE 0]

\* The catch block, then line 260; the invocation is over.
FailCall(c, outcome) ==
  LET a == openConnection(createSessionCatch(Snapshot), options, endpoints)
  IN /\ calls' = Finish(c)
     /\ Commit(a, Done(outcome, c.auto, a), NoSend)

\* new Api(device) for a device that has no address yet, as the Sdk builds
\* it: no options, the auto auth subscriber has run destroySession.
Init ==
  /\ options = NoOptions
  /\ endpoints = [ws |-> buildEndpoint("ws", NoOptions), http |-> buildEndpoint("http", NoOptions)]
  /\ address = NULL
  /\ session = setAsDestroyed
  /\ connState = Closed
  /\ muted = FALSE
  /\ reconnectInterval = 0
  /\ timers = {}
  /\ calls = EmptyBag
  /\ ev = [path |-> <<>>, open |-> NoOpen, cleared |-> FALSE, closed |-> TRUE,
           done |-> NoDone, send |-> NoSend]   \* the constructor ran destroySession
  /\ secureAction = NoSecureAction
  /\ account = NoAccount
  /\ accountDevice = NoAccountDevice
  /\ tasks = EmptyBag
  /\ subscribed = TRUE
  /\ muteAck = NoAck
  /\ sdkEv = NoSdkEv

\* ------------------------------------------------------------- Api tasks
\* options setter -> options$.next: the endpoints subscriber (188-197), then
\* the auto auth subscriber (207-222).
SetOptions(o) ==
  LET endp == [ws |-> buildEndpoint("ws", o), http |-> buildEndpoint("http", o)]
      a1 == SetSession(Snapshot, setAsDestroyed)
  IN /\ o # options
     /\ canAuth(o, address) => CanStart
     /\ options' = o
     /\ endpoints' = endp
     /\ IF canAuth(o, address)
          THEN /\ calls' = calls (+) SetToBag({NewCall(TRUE, endp)})
               /\ Commit(createSessionStart(a1), NoDone, NoSend)
          ELSE /\ calls' = calls
               /\ Commit(destroySession(a1), NoDone, NoSend)
     /\ UNCHANGED <<address, muted>>
     /\ SdkIdle

\* device.address$ emits: the auto auth subscriber (207-222).
SetAddress(addr) ==
  /\ addr # address
  /\ canAuth(options, addr) => CanStart
  /\ address' = addr
  /\ IF canAuth(options, addr)
       THEN /\ calls' = calls (+) SetToBag({NewCall(TRUE, endpoints)})
            /\ Commit(createSessionStart(Snapshot), NoDone, NoSend)
       ELSE /\ calls' = calls
            /\ Commit(destroySession(Snapshot), NoDone, NoSend)
  /\ UNCHANGED <<options, endpoints, muted>>
  /\ SdkIdle

\* A caller invokes api.createSession() (Sdk.createApiSession).
CreateSession ==
  /\ CanStart
  /\ calls' = calls (+) SetToBag({NewCall(FALSE, endpoints)})
  /\ Commit(createSessionStart(Snapshot), NoDone, NoSend)
  /\ UNCHANGED <<options, endpoints, address, muted>>
  /\ SdkIdle

\* A caller invokes api.destroySession().
DestroySession ==
  /\ calls' = calls
  /\ Commit(destroySession(Snapshot), NoDone, NoSend)
  /\ UNCHANGED <<options, endpoints, address, muted>>
  /\ SdkIdle

\* call() threw errApiUnknownHttpEndpoint before any request went out; the
\* await in createSession resumes into the catch block.
Rejected ==
  /\ \E c \in InFlight :
       /\ c.pc = "rejected"
       /\ FailCall(c, "noHttp")
  /\ UNCHANGED <<options, endpoints, address, muted>>
  /\ SdkIdle

\* POST /session answered: data.hash, or nothing (transport error).
HashResponse(h) ==
  /\ NoMicrotask
  /\ \E c \in InFlight :
       /\ c.pc = "hash"
       /\ IF h = NULL
            THEN FailCall(c, "hashFail")
            ELSE /\ calls' = Replace(c, [c EXCEPT !.pc = "sign", !.hash = h,
                                                     !.signer = address])
                 /\ Commit(Snapshot, NoDone, NoSend)
  /\ UNCHANGED <<options, endpoints, address, muted>>
  /\ SdkIdle

\* device.signPersonalMessage settled; on success verifySessionHash -> call()
\* runs up to its fetch, or throws when the http endpoint is gone.
SignDone(ok) ==
  /\ NoMicrotask
  /\ \E c \in InFlight :
       /\ c.pc = "sign"
       /\ IF ~ok THEN FailCall(c, "signFail")
          ELSE IF endpoints.http = <<>> THEN FailCall(c, "noHttp")
          ELSE /\ calls' = Replace(c, [c EXCEPT !.pc = "verify",
                                                   !.signature = <<c.signer, c.hash>>])
               /\ Commit(Snapshot, NoDone, NoSend)
  /\ UNCHANGED <<options, endpoints, address, muted>>
  /\ SdkIdle

\* PUT /session answered: data.token, or nothing (transport error, or the
\* backend refusing a signature nobody made).
VerifyResponse(t) ==
  /\ NoMicrotask
  /\ \E c \in InFlight :
       /\ c.pc = "verify"
       /\ t # NULL => c.signer # NULL
       /\ IF t = NULL
            THEN FailCall(c, "verifyFail")
            ELSE LET a == openConnection(SetSession(Snapshot, setAsVerified(t)),
                                         options, endpoints)
                 IN /\ calls' = Finish(c)
                    /\ Commit(a, Done("ok", c.auto, a), NoSend)
  /\ UNCHANGED <<options, endpoints, address, muted>>
  /\ SdkIdle

\* The setInterval callback of openConnection (566-572).
Tick(t) ==
  /\ NoMicrotask
  /\ t \in timers
  /\ calls' = calls
  /\ Commit(IF connState = Closed
              THEN connectionOpen(Snapshot, "timer", endpoints.ws, session.token)
              ELSE Snapshot,
            NoDone, NoSend)
  /\ UNCHANGED <<options, endpoints, address, muted>>
  /\ SdkIdle

\* The socket reports: connected, failed to connect, lost.
ConnectionEvent(from, to) ==
  /\ NoMicrotask
  /\ connState = from
  /\ calls' = calls
  /\ Commit([Snapshot EXCEPT !.conn = to], NoDone, NoSend)
  /\ UNCHANGED <<options, endpoints, address, muted>>
  /\ SdkIdle

ConnectionOpens == ConnectionEvent(Connecting, Opened)
ConnectionFails == ConnectionEvent(Connecting, Closed)
ConnectionLost == ConnectionEvent(Opened, Closed)

\* ------------------------------------------------------------- sending
encodeApiEvent(event) == <<"frame", event.type, event.payload>>

anyToHex(signature) == <<"0x", signature>>

sendEventUnguarded(conn, event) ==
  [err |-> NULL, frame |-> encodeApiEvent(event)]

\* Api.sendEvent (513-521): the error thrown, or the frame handed to
\* connection.send.
sendEvent(conn, event) ==
  IF ~connectionOpened(conn)
    THEN [err |-> "InvalidConnectionState", frame |-> NoFrame]
    ELSE [err |-> NULL, frame |-> encodeApiEvent(event)]

Send(event) ==
  LET r == sendEvent(connState, event)
  IN /\ calls' = calls
     /\ Commit(Snapshot, NoDone,
               [type |-> event.type, err |-> r.err, frame |-> r.frame,
                before |-> <<session, connState, muted>>])
     /\ UNCHANGED <<options, endpoints, address, muted>>
     /\ SdkIdle

MuteConnection == Send([type |-> "MuteConnection", payload |-> <<>>])

UnMuteConnection == Send([type |-> "UnMuteConnection", payload |-> <<>>])

SignSecureAction(recipient, signature) ==
  Send([type |-> "SignedSecureAction",
        payload |-> [recipient |-> recipient, signature |-> anyToHex(signature)]])

\* ------------------------------------------------------------- Sdk: secure link
\* What a task of the Sdk works on, with what it has done so far: the event
\* handed to Api.sendEvent, the errors put on Sdk.error$, the actions put on
\* linker.incomingAction$, the url returned.
SdkSnapshot ==
  [secureAction |-> secureAction, send |-> NoSend, errs |-> <<>>,
   emitted |-> <<>>, url |-> <<>>, started |-> NoTask,
   subscribed |-> subscribed, ack |-> muteAck]

\* A call of an Api method that sends one event; errs holds what it threw.
apiSend(s, conn, event) ==
  LET r == sendEvent(conn, event)
  IN [s EXCEPT !.send = [type |-> event.type, err |-> r.err, frame |-> r.frame,
                         before |-> <<session, connState, muted>>],
               !.errs = IF r.err # NULL THEN Append(@, r.err) ELSE @,
               !.ack = IF event.type = "MuteConnection" /\ r.err = NULL /\ @ = NoAck
                         THEN Fresh ELSE @]

\* try { api.muteConnection() } catch (err) { error$.next(err) }
muteApiConnection(s, conn) ==
  apiSend(s, conn, [type |-> "MuteConnection", payload |-> <<>>])

unMuteApiConnection(s, conn) ==
  apiSend(s, conn, [type |-> "UnMuteConnection", payload |-> <<>>])

\* linker.buildActionUrl(action, {senderType}): the url carries the action
\* with the sender of that role.
buildActionUrl(action, senderType, addr) ==
  <<"url", [type |-> action.type, payload |-> action.payload,
            sender |-> [type |-> senderType, data |-> addr]]>>

createSecureActionUrl(s, conn, type, hash, addr) ==
  [unMuteApiConnection(s, conn) EXCEPT
     !.secureAction = [type |-> type, hash |-> hash],
     !.ack = IF @ = Fresh THEN Late ELSE @,
     !.url = buildActionUrl([type |-> Secure,
                             payload |-> [networkVersion |-> NetworkVersion,
                                          hash |-> hash]],
                            Device, addr)]

destroySecureAction(s, conn) == muteApiConnection(s, conn)

\* device.signPersonalMessage(hash) with the key of address addr.
signPersonalMessage(addr, hash) == <<addr, hash>>

\* eth-utils: the address whose key made the signature, when the signature
\* is over this hash; over another hash the recovery yields an address
\* that belongs to nobody.
recoverAddressFromPersonalMessage(hash, signature) ==
  LET sig == IF signature[1] = "0x" THEN signature[2] ELSE signature
  IN IF sig[2] = hash THEN sig[1] ELSE "a0"

trySignedSecureActionInverted(s, signer, signature) ==
  IF s.secureAction = NoSecureAction THEN s
  ELSE IF signer = recoverAddressFromPersonalMessage(s.secureAction.hash, signature)
    THEN s
  ELSE IF s.secureAction.type = CreateAccountDevice
    THEN [s EXCEPT !.emitted =
            Append(@, [type |-> s.secureAction.type,
                       payload |-> [networkVersion |-> NetworkVersion,
                                    deviceAddress |-> signer],
                       sender |-> [type |-> Device, data |-> signer]])]
  ELSE s

\* The try block of the signed-secure-action case (437-468).
trySignedSecureAction(s, signer, signature) ==
  IF s.secureAction = NoSecureAction THEN s
  ELSE IF signer # recoverAddressFromPersonalMessage(s.secureAction.hash, signature)
    THEN s
  ELSE IF s.secureAction.type = CreateAccountDevice
    THEN [s EXCEPT !.emitted =
            Append(@, [type |-> s.secureAction.type,
                       payload |-> [networkVersion |-> NetworkVersion,
                                    deviceAddress |-> signer],
                       sender |-> [type |-> Device, data |-> signer]])]
  ELSE s

\* ... and its finally block.
signedSecureAction(s, conn, signer, signature) ==
  destroySecureAction(trySignedSecureAction(s, signer, signature), conn)

\* connection.muted$: the value set is reported to the subscribers; setting
\* the value the flag already has may or may not be reported.
mutedReports(old, new) == IF old = new THEN BOOLEAN ELSE {TRUE}

onMutedKeep(s, reported, m) == s

\* The muted$ subscriber of configureApi (367-376).
onMuted(s, reported, m) ==
  IF reported /\ m THEN [s EXCEPT !.secureAction = NoSecureAction] ELSE s

SdkCommit(s, op, report, task) ==
  /\ secureAction' = s.secureAction
  /\ subscribed' = s.subscribed
  /\ muteAck' = s.ack
  /\ sdkEv' = [op |-> op, found |-> secureAction, emitted |-> s.emitted,
               url |-> s.url, errs |-> s.errs, report |-> report, task |-> task,
               started |-> s.started]
  /\ calls' = calls
  /\ Commit(Snapshot, NoDone, s.send)

\* A caller invokes sdk.createSecureActionUrl(type); randomBytes gives hash.
CreateSecureActionUrl(type, hash) ==
  /\ NoMicrotask
  /\ SdkCommit(createSecureActionUrl(SdkSnapshot, connState, type, hash, address),
               "createSecureActionUrl", FALSE, <<>>)
  /\ UNCHANGED <<options, endpoints, address, muted, account, accountDevice, tasks>>

\* A caller invokes sdk.destroySecureAction().
DestroySecureAction ==
  /\ NoMicrotask
  /\ SdkCommit(destroySecureAction(SdkSnapshot, connState),
               "destroySecureAction", FALSE, <<>>)
  /\ UNCHANGED <<options, endpoints, address, muted, account, accountDevice, tasks>>

\* An inbound connection-muted / connection-unmuted event (396-402) sets
\* connection.muted; the muted$ subscriber runs in the same task.
InboundMuted(m) ==
  /\ NoMicrotask
  /\ connState = Opened
  /\ subscribed
  /\ muted' = m
  /\ \E reported \in mutedReports(muted, m) :
       SdkCommit(onMuted(SdkSnapshot, reported, m), "muted", reported /\ m, <<>>)
  /\ UNCHANGED <<options, endpoints, address, account, accountDevice, tasks>>

\* The relay's connection-muted answer to an earlier mute-connection frame
\* arrives: the same event, handled by the same code (396-398, 367-376).
RelayAcksMute ==
  /\ NoMicrotask
  /\ connState = Opened
  /\ subscribed
  /\ muteAck # NoAck
  /\ muted' = TRUE
  /\ \E reported \in mutedReports(muted, TRUE) :
       SdkCommit([onMuted(SdkSnapshot, reported, TRUE) EXCEPT !.ack = NoAck],
                 "muteAck", reported, [late |-> muteAck = Late])
  /\ UNCHANGED <<options, endpoints, address, account, accountDevice, tasks>>

\* A caller sets api.connection.muted itself.
SetMuted(m) ==
  /\ NoMicrotask
  /\ muted' = m
  /\ \E reported \in mutedReports(muted, m) :
       SdkCommit(onMuted(SdkSnapshot, reported, m), "muted", reported /\ m, <<>>)
  /\ UNCHANGED <<options, endpoints, address, account, accountDevice, tasks>>

\* An inbound signed-secure-action event (436-473).
InboundSignedSecureAction(signer, signature) ==
  /\ NoMicrotask
  /\ connState = Opened
  /\ subscribed
  /\ SdkCommit(signedSecureAction(SdkSnapshot, connState, signer, signature),
               "signedSecureAction", FALSE,
               [signer |-> signer, signature |-> signature])
  /\ UNCHANGED <<options, endpoints, address, muted, account, accountDevice, tasks>>

\* ------------------------------------------------------------- Sdk: accepted link actions
NoSender == [type |-> NULL, data |-> NULL]   \* an action without sender

Waiting == BagToSet(tasks)

CanWait == BagCardinality(tasks) < MaxTasks

acceptedActionAnySender(action, addr) ==
  IF action.type = Secure /\ action.sender # NoSender
    THEN [NoTask EXCEPT !.kind = "secure", !.pc = "sign",
                        !.hash = action.payload.hash,
                        !.recipient = action.sender.data, !.signer = addr]
    ELSE NoTask

\* The acceptedAction$ subscriber of configureLinker (502-527) up to its
\* await: the handler that now waits for the signature, if any.
acceptedAction(action, addr) ==
  IF action.type = Secure /\ action.sender # NoSender /\ action.sender.type = Device
    THEN [NoTask EXCEPT !.kind = "secure", !.pc = "sign",
                        !.hash = action.payload.hash,
                        !.recipient = action.sender.data, !.signer = addr]
    ELSE NoTask

\* sender.type of an action without sender throws.
acceptedActionErrs(action) ==
  IF action.type = Secure /\ action.sender = NoSender THEN <<"TypeError">> ELSE <<>>

\* ... after the await: api.signSecureAction(sender.data, signature).
acceptedActionSigned(s, conn, task) ==
  apiSend(s, conn,
          [type |-> "SignedSecureAction",
           payload |-> [recipient |-> task.recipient,
                        signature |-> anyToHex(signPersonalMessage(task.signer,
                                                                   task.hash))]])

\* linker.acceptedAction$ emits an action.
AcceptAction(action) ==
  LET t == acceptedAction(action, address)
  IN /\ NoMicrotask
     /\ t # NoTask => CanWait
     /\ tasks' = IF t = NoTask THEN tasks ELSE tasks (+) SetToBag({t})
     /\ SdkCommit([SdkSnapshot EXCEPT !.errs = acceptedActionErrs(action),
                                       !.started = t],
                  "acceptedAction", FALSE, action)
     /\ UNCHANGED <<options, endpoints, address, muted, account, accountDevice>>

\* device.signPersonalMessage settled for a waiting handler: with the
\* signature, or rejected (a device without key cannot sign).
AcceptedActionSigned(ok) ==
  /\ NoMicrotask
  /\ \E t \in Waiting :
       /\ t.kind = "secure"
       /\ ok => t.signer # NULL
       /\ tasks' = tasks (-) SetToBag({t})
       /\ SdkCommit(IF ok THEN acceptedActionSigned(SdkSnapshot, connState, t)
                          ELSE [SdkSnapshot EXCEPT !.errs = <<"SignFailed">>],
                    "acceptedActionSigned", FALSE, t)
  /\ UNCHANGED <<options, endpoints, address, muted, account, accountDevice>>

\* ------------------------------------------------------------- Sdk: account
\* account.ensName: the name of the attributes, null without attributes.
accountEnsName(acc) == acc.ensName

\* Api.call throws before any request when there is no http endpoint.
callThrows(endp) == endp.http = <<>>

\* The account-updated case (404-416) up to its first await.
accountUpdated(acc, ensName) ==
  IF accountEnsName(acc) = ensName
    THEN [NoTask EXCEPT !.kind = "updated", !.pc = "account", !.ensName = ensName]
    ELSE NoTask

\* joinAccount (164-191) up to its first await.
joinAccount(ensName) ==
  [NoTask EXCEPT !.kind = "join", !.pc = "account", !.ensName = ensName]

\* createAccount (197-214) up to its first await.
createAccount(ensName) ==
  [NoTask EXCEPT !.kind = "create", !.pc = "account", !.ensName = ensName]

\* Does the handler go on to getAccountDevice with this answer?
fetchesDevice(t, attrs) == t.kind = "updated" \/ attrs # NoAccount

applyFetchedAccountOnly(acc, dev, got, data) ==
  [account |-> IF got # NoAccount /\ data # NoAccountDevice THEN got ELSE acc,
   accountDevice |-> dev]

applyFetchedPartly(acc, dev, got, data) ==
  [account |-> IF got # NoAccount THEN got ELSE acc,
   accountDevice |-> IF data # NoAccountDevice THEN data ELSE dev]

\* if (accountAttributes && accountDeviceAttributes) { both assignments }
applyFetched(acc, dev, got, data) ==
  IF got # NoAccount /\ data # NoAccountDevice
    THEN [account |-> got, accountDevice |-> data]
    ELSE [account |-> acc, accountDevice |-> dev]

SdkStart(t, op, input) ==
  /\ NoMicrotask
  /\ (t # NoTask /\ ~callThrows(endpoints)) => CanWait
  /\ tasks' = IF t # NoTask /\ ~callThrows(endpoints)
                THEN tasks (+) SetToBag({t}) ELSE tasks
  /\ SdkCommit([SdkSnapshot EXCEPT
                  !.started = IF callThrows(endpoints) THEN NoTask ELSE t,
                  !.errs = IF t # NoTask /\ callThrows(endpoints)
                             THEN <<"UnknownHttpEndpoint">> ELSE <<>>],
               op, FALSE, input)
  /\ UNCHANGED <<options, endpoints, address, muted, account, accountDevice>>

\* An inbound account-updated event.
InboundAccountUpdated(ensName) ==
  /\ connState = Opened
  /\ subscribed
  /\ SdkStart(accountUpdated(account, ensName), "accountUpdated",
              [ensName |-> ensName])

\* A caller invokes sdk.joinAccount(ensName).
JoinAccount(ensName) ==
  SdkStart(joinAccount(ensName), "joinAccount", [ensName |-> ensName])

\* A caller invokes sdk.createAccount(ensName).
CreateAccount(ensName) ==
  SdkStart(createAccount(ensName), "createAccount", [ensName |-> ensName])

\* A caller invokes sdk.resetAccount().
ResetAccount ==
  /\ NoMicrotask
  /\ account' = NoAccount
  /\ accountDevice' = NoAccountDevice
  /\ SdkCommit(SdkSnapshot, "resetAccount", FALSE, <<>>)
  /\ UNCHANGED <<options, endpoints, address, muted, tasks>>

\* getAccount or createAccount answered: the attributes of the account
\* asked for, or nothing.
AccountFetched(rev) ==
  /\ NoMicrotask
  /\ \E t \in Waiting :
       LET attrs == IF rev = 0 THEN NoAccount
                    ELSE [ensName |-> t.ensName, rev |-> rev]
           goesOn == fetchesDevice(t, attrs) /\ ~callThrows(endpoints)
       IN /\ t.kind \in {"updated", "join", "create"}
          /\ t.pc = "account"
          /\ tasks' = IF goesOn
                        THEN (tasks (-) SetToBag({t}))
                               (+) SetToBag({[t EXCEPT !.pc = "device", !.got = attrs]})
                        ELSE tasks (-) SetToBag({t})
          /\ SdkCommit([SdkSnapshot EXCEPT
                          !.errs = IF fetchesDevice(t, attrs) /\ callThrows(endpoints)
                                     THEN <<"UnknownHttpEndpoint">> ELSE <<>>],
                       "accountFetched", FALSE, [task |-> t, rev |-> rev])
  /\ UNCHANGED <<options, endpoints, address, muted, account, accountDevice>>

\* getAccountDevice answered: attributes, or nothing.
AccountDeviceFetched(rev) ==
  /\ NoMicrotask
  /\ \E t \in Waiting :
       LET data == IF rev = 0 THEN NoAccountDevice ELSE [rev |-> rev]
           r == applyFetched(account, accountDevice, t.got, data)
       IN /\ t.kind \in {"updated", "join", "create"}
          /\ t.pc = "device"
          /\ tasks' = tasks (-) SetToBag({t})
          /\ account' = r.account
          /\ accountDevice' = r.accountDevice
          /\ SdkCommit(SdkSnapshot, "accountDeviceFetched", FALSE,
                       [task |-> t, data |-> data,
                        tracked |-> accountEnsName(account)])
  /\ UNCHANGED <<options, endpoints, address, muted>>

\* ------------------------------------------------------------- Sdk: other frames
\* decodeApiEvent: the event of a frame encodeApiEvent made; any other frame
\* decodes to the unrecognized event, never to an exception.
Unrecognized == [type |-> "Unrecognized", payload |-> <<>>]

decodeApiEvent(frame) ==
  IF Len(frame) = 3 /\ frame[1] = "frame"
    THEN [type |-> frame[2], payload |-> frame[3]]
    ELSE Unrecognized

\* The event types whose case of the switch (395-474) does something.
HandledTypes == {"ConnectionMuted", "ConnectionUnMuted", "AccountUpdated",
                 "SignedSecureAction"}

eventIgnoredOrThrown(s, event) ==
  IF event.type = "Unrecognized" THEN [s EXCEPT !.subscribed = FALSE] ELSE s

\* The project function of switchMap (393) for an event of any other type:
\* {type, payload} is taken apart, no case matches or the case is empty, the
\* promise resolves and the subscription stays.
eventIgnored(s, event) == s

\* connection.data$ emits a frame that is no event the switch acts on.
InboundFrame(frame) ==
  LET event == decodeApiEvent(frame)
  IN /\ NoMicrotask
     /\ connState = Opened
     /\ subscribed
     /\ event.type \notin HandledTypes
     /\ SdkCommit(eventIgnored(SdkSnapshot, event), "inboundFrame", FALSE, event)
     /\ UNCHANGED <<options, endpoints, address, muted, account, accountDevice, tasks>>

\* ------------------------------------------------------------- session, driven directly
\* api.session is public: a caller may run the transitions itself.
SessionSetAsVerifying(token) ==
  /\ calls' = calls
  /\ Commit(SetSession(Snapshot, setAsVerifying(token)), NoDone, NoSend)
  /\ UNCHANGED <<options, endpoints, address, muted>>
  /\ SdkIdle

SessionSetAsVerified(token) ==
  /\ calls' = calls
  /\ Commit(SetSession(Snapshot, setAsVerified(token)), NoDone, NoSend)
  /\ UNCHANGED <<options, endpoints, address, muted>>
  /\ SdkIdle

SessionSetAsDestroyed ==
  /\ calls' = calls
  /\ Commit(SetSession(Snapshot, setAsDestroyed), NoDone, NoSend)
  /\ UNCHANGED <<options, endpoints, address, muted>>
  /\ SdkIdle

\* ------------------------------------------------------------- specifications
\* The Api left to itself: configuration, device and network drive it.
NextAuto ==
  \/ \E o \in OptionValues : SetOptions(o)
  \/ \E addr \in Addresses \cup {NULL} : SetAddress(addr)
  \/ \E h \in Hashes \cup {NULL} : HashResponse(h)
  \/ \E ok \in BOOLEAN : SignDone(ok)
  \/ \E t \in Tokens \cup {NULL} : VerifyResponse(t)
  \/ \E t \in 1..MaxTimers : Tick(t)
  \/ ConnectionOpens
  \/ ConnectionFails
  \/ ConnectionLost

SpecAuto == Init /\ [][NextAuto]_vars

\* ... and with callers that create and destroy the session themselves.
Next ==
  \/ NextAuto
  \/ CreateSession
  \/ DestroySession
  \/ Rejected

Spec == Init /\ [][Next]_vars

\* The Api left to itself, with callers that send events and destroy the
\* session, and a relay that mutes and unmutes.
NextSend ==
  \/ NextAuto
  \/ DestroySession
  \/ MuteConnection
  \/ UnMuteConnection
  \/ \E r \in Addresses : SignSecureAction(r, <<"a1", "h1">>)
  \/ \E m \in BOOLEAN : InboundMuted(m)

SpecSend == Init /\ [][NextSend]_vars

\* The session's own transitions next to createSession / destroySession.
NextSession ==
  \/ \E t \in Tokens \cup {NULL} : SessionSetAsVerifying(t)
  \/ \E t \in Tokens \cup {NULL} : SessionSetAsVerified(t)
  \/ SessionSetAsDestroyed
  \/ CreateSession
  \/ DestroySession
  \/ Rejected
  \/ \E h \in Hashes \cup {NULL} : HashResponse(h)
  \/ \E ok \in BOOLEAN : SignDone(ok)
  \/ \E t \in Tokens \cup {NULL} : VerifyResponse(t)
  \/ \E o \in OptionValues : SetOptions(o)

SpecSession == Init /\ [][NextSession]_vars

\* The first scenario.  Until auto auth applies the Api is driven freely;
\* auto auth begins with no caller's createSession pending, and from then on
\* configuration and device stay, the backend answers the session calls
\* with data and a connecting socket opens.
Settled == canAuth(options, address)

NextLive ==
  \/ \E o \in OptionValues :
       ~Settled /\ (canAuth(o, address) => calls = EmptyBag) /\ SetOptions(o)
  \/ \E addr \in Addresses \cup {NULL} :
       ~Settled /\ (canAuth(options, addr) => calls = EmptyBag) /\ SetAddress(addr)
  \/ ~Settled /\ calls = EmptyBag /\ CreateSession
  \/ ~Settled /\ DestroySession
  \/ Rejected
  \/ \E h \in Hashes \cup {NULL} : (Settled => h # NULL) /\ HashResponse(h)
  \/ \E ok \in BOOLEAN : (Settled => ok) /\ SignDone(ok)
  \/ \E t \in Tokens \cup {NULL} : (Settled => t # NULL) /\ VerifyResponse(t)
  \/ \E t \in 1..MaxTimers : Tick(t)
  \/ ConnectionOpens
  \/ ~Settled /\ ConnectionFails
  \/ ConnectionLost

\* fetch and signPersonalMessage settle and the socket reports: a pending
\* promise resumes and a connecting socket opens.
SpecLive ==
  /\ Init
  /\ [][NextLive]_vars
  /\ WF_vars(\E h \in Hashes : HashResponse(h))
  /\ WF_vars(SignDone(TRUE))
  /\ WF_vars(\E t \in Tokens : VerifyResponse(t))
  /\ WF_vars(ConnectionOpens)


\* The secure link: this device creates and cancels challenges, the relay
\* delivers mute acknowledgements and signed responses, the user accepts
\* link actions; the session comes and goes underneath.
LinkOptions ==
  {o \in OptionValues : o.present /\ ~o.manualAuth /\ o.reconnectTimeout = 0}

Signatures == {signPersonalMessage(k, n) : k \in Addresses, n \in Nonces}

AcceptedActions ==
  {[type |-> t, payload |-> [networkVersion |-> NetworkVersion, hash |-> "n1"],
    sender |-> snd] :
     t \in {Secure, CreateAccountDevice},
     snd \in {NoSender} \cup [type : LinkerActionSenderTypes, data : {"a2"}]}

OtherFrames ==
  {<<"garbage">>, <<>>,
   encodeApiEvent([type |-> "AccountDeviceAdded",
                   payload |-> [account |-> "e1", address |-> "a2"]])}

NextLink ==
  \/ \E o \in LinkOptions : SetOptions(o)
  \/ \E addr \in Addresses \cup {NULL} : SetAddress(addr)
  \/ \E h \in Hashes : HashResponse(h)
  \/ SignDone(TRUE)
  \/ \E t \in Tokens : VerifyResponse(t)
  \/ ConnectionOpens
  \/ ConnectionLost
  \/ \E type \in {CreateAccountDevice, AccountDeviceCreated}, hash \in Nonces :
       CreateSecureActionUrl(type, hash)
  \/ DestroySecureAction
  \/ \E m \in BOOLEAN : InboundMuted(m)
  \/ RelayAcksMute
  \/ \E m \in BOOLEAN : SetMuted(m)
  \/ \E signer \in Addresses, signature \in Signatures :
       InboundSignedSecureAction(signer, anyToHex(signature))
  \/ \E frame \in OtherFrames : InboundFrame(frame)

SpecLink == Init /\ [][NextLink]_vars

\* The other device's side: the user accepts link actions while this
\* device may hold a challenge of its own.
NextAccept ==
  \/ \E o \in LinkOptions : SetOptions(o)
  \/ \E addr \in {"a1", NULL} : SetAddress(addr)
  \/ \E h \in Hashes : HashResponse(h)
  \/ SignDone(TRUE)
  \/ \E t \in Tokens : VerifyResponse(t)
  \/ ConnectionOpens
  \/ ConnectionLost
  \/ \E hash \in Nonces : CreateSecureActionUrl(CreateAccountDevice, hash)
  \/ \E action \in AcceptedActions : AcceptAction(action)
  \/ \E ok \in BOOLEAN : AcceptedActionSigned(ok)

SpecAccept == Init /\ [][NextAccept]_vars

\* The account: the user joins and resets, the relay announces updates,
\* the backend answers the fetches with data or with nothing.
NextAccount ==
  \/ \E o \in LinkOptions : SetOptions(o)
  \/ SetAddress("a1")
  \/ \E h \in Hashes : HashResponse(h)
  \/ SignDone(TRUE)
  \/ \E t \in Tokens : VerifyResponse(t)
  \/ ConnectionOpens
  \/ \E e \in EnsNames : JoinAccount(e)
  \/ \E e \in EnsNames : CreateAccount(e)
  \/ ResetAccount
  \/ \E e \in EnsNames : InboundAccountUpdated(e)
  \/ \E rev \in Revs \cup {0} : AccountFetched(rev)
  \/ \E rev \in Revs \cup {0} : AccountDeviceFetched(rev)

SpecAccount == Init /\ [][NextAccount]_vars

\* createSession attempts of a caller, one or several at a time, against a
\* backend that hands out different hashes and tokens.
OrderHashes == {"h1", "h2"}
OrderTokens == {"t1", "t2"}
ManualOptions == [present |-> TRUE, manualAuth |-> TRUE, reconnectTimeout |-> 0]

NextOrder ==
  \/ SetOptions(ManualOptions)
  \/ \E addr \in Addresses \cup {NULL} : SetAddress(addr)
  \/ CreateSession
  \/ Rejected
  \/ \E h \in OrderHashes \cup {NULL} : HashResponse(h)
  \/ \E ok \in BOOLEAN : SignDone(ok)
  \/ \E t \in OrderTokens \cup {NULL} : VerifyResponse(t)

SpecOrder == Init /\ [][NextOrder]_vars

\* ------------------------------------------------------------- claims
\* C1: a non-null session token implies state = Verified, in every state
\* reached by the session's transitions (setAsVerifying with or without a
\* token) and by createSession / destroySession.
C1_TokenOnlyWhenVerified == session.token # NULL => session.state = Verified

FailOutcomes == {"noHttp", "hashFail", "signFail", "verifyFail"}

\* C2: a createSession whose hash request, signing or verify request fails
\* ends with the session Destroyed and the token null, and once no
\* createSession is in flight the session is not Verifying.
C2_FailedCreateSessionEndsDestroyed ==
  /\ ev.done.outcome \in FailOutcomes =>
       session.state = Destroyed /\ session.token = NULL
  /\ calls = EmptyBag => session.state # Verifying

C2_Witness ==
  /\ ev.done.outcome = "verifyFail"
  /\ ev.path = <<Verifying, Destroyed>>
  /\ calls = EmptyBag

\* C3: a transport error on the verify step of an auto auth createSession
\* (endpoints configured) ends with the session Destroyed, exactly one error
\* on Api.error$ for the attempt, and the connection Closed.
C3_VerifyFailureReportsOneError ==
  (ev.done.outcome = "verifyFail" /\ ev.done.auto /\ endpoints.ws # <<>>) =>
    /\ session.state = Destroyed
    /\ ev.done.errs = 1
    /\ connState = Closed

\* C4: whenever options, a device address and no manualAuth are not all
\* there, the session is Destroyed and the connection Closed.
C4_AutoAuthLevelTriggered ==
  ~canAuth(options, address) => session.state = Destroyed /\ connState = Closed

\* C5: the connection is Connecting or Opened only while the session is
\* Verified.
C5_ConnectionOnlyWhileVerified ==
  connState \in {Connecting, Opened} => session.state = Verified

ValidTransitions ==
  {<<Destroyed, Verifying>>, <<Verifying, Verified>>,
   <<Verifying, Destroyed>>, <<Verified, Destroyed>>}

\* C6: every change of the session state is Destroyed->Verifying,
\* Verifying->Verified, Verifying->Destroyed or Verified->Destroyed.
C6_OnlyValidTransitions ==
  \A i \in 1..(Len(ev.path) - 1) : <<ev.path[i], ev.path[i + 1]>> \in ValidTransitions

\* C7: sending an event while the connection is not Opened fails with
\* InvalidConnectionState, hands no frame to the connection and leaves the
\* session, the connection state and the muted flag as they were.
C7_SendWhileNotOpenedFails ==
  (ev.send.type # "none" /\ ev.send.before[2] # Opened) =>
    /\ ev.send.err = "InvalidConnectionState"
    /\ ev.send.frame = NoFrame
    /\ <<session, connState, muted>> = ev.send.before

C7_Witness ==
  /\ ev.send.type = "SignedSecureAction"
  /\ connState = Connecting
  /\ muted
  /\ ev.send.err = "InvalidConnectionState"

\* C8: at most one reconnect timer is live.
C8_AtMostOneTimer == Cardinality(timers) <= 1

\* openConnection ran with a live timer: it cleared it and armed the next.
C8_Witness ==
  /\ ev.open.by = "openConnection"
  /\ ev.cleared
  /\ Cardinality(timers) = 1

\* C9: closeConnection leaves no live timer and the connection Closed, and
\* from there the connection stays Closed until openConnection opens it.
C9_CloseDisarmsTimer ==
  /\ [](ev.closed => (timers = {} /\ connState = Closed))
  /\ [][(timers = {} /\ connState = Closed /\ connState' # Closed)
          => ev'.open.by = "openConnection"]_vars

\* destroySession ran while a timer was live.
C9_Witness == ev.closed /\ ev.cleared

\* C10: every connection.open made by the reconnect timer happens while
\* the session is Verified and passes a non-null token.
C10_TimerOpensOnlyWhileVerified ==
  ev.open.by = "timer" => (ev.open.sess = Verified /\ ev.open.token # NULL)

\* C11: once options are present, the device has an address and manualAuth
\* is off (the auto auth createSession has begun), with the backend
\* answering both session calls and the socket connecting, the session is
\* eventually Verified with a non-null token and the connection Opened.
C11_AutoAuthReachesVerifiedOpened ==
  (canAuth(options, address) /\ session.state = Verifying)
    ~> (session.state = Verified /\ session.token # NULL /\ connState = Opened)

C11_Witness ==
  /\ canAuth(options, address)
  /\ ev.path = <<>>
  /\ session.state = Verified
  /\ session.token # NULL
  /\ connState = Opened

\* A signed-secure-action event was handled while a challenge was there.
Responded == sdkEv.op = "signedSecureAction" /\ sdkEv.found # NoSecureAction

\* ... and its signature is the reported signer's, over the challenge's hash.
ValidResponse ==
  /\ Responded
  /\ sdkEv.task.signature =
       anyToHex(signPersonalMessage(sdkEv.task.signer, sdkEv.found.hash))

\* C12: with the challenge {CreateAccountDevice, N} outstanding, an event
\* whose signature over N is the reported signer A's puts exactly one
\* LinkAction on the linker: type CreateAccountDevice, deviceAddress A,
\* sender {Device, A}.
C12_ValidResponseEmitsLinkAction ==
  (ValidResponse /\ sdkEv.found.type = CreateAccountDevice) =>
    /\ Len(sdkEv.emitted) = 1
    /\ sdkEv.emitted[1].type = CreateAccountDevice
    /\ sdkEv.emitted[1].payload.deviceAddress = sdkEv.task.signer
    /\ sdkEv.emitted[1].sender = [type |-> Device, data |-> sdkEv.task.signer]

C12_Witness ==
  /\ ValidResponse
  /\ sdkEv.found = [type |-> CreateAccountDevice, hash |-> "n2"]
  /\ sdkEv.task.signer = "a2"
  /\ sdkEv.emitted # <<>>

\* C13: an event whose reported signer is not the address recovered from
\* the signature is ignored: no LinkAction, no mute-connection request, the
\* challenge stays as it was.
C13_MismatchIgnored ==
  (Responded /\ sdkEv.task.signer #
     recoverAddressFromPersonalMessage(sdkEv.found.hash, sdkEv.task.signature)) =>
    /\ sdkEv.emitted = <<>>
    /\ ev.send.type = "none"
    /\ secureAction = sdkEv.found

\* C14: createSecureActionUrl leaves its own challenge as the only one, and
\* a response signed over another hash than the outstanding one emits no
\* LinkAction, requests no mute and leaves the outstanding challenge.
C14_StaleResponseLeavesNewChallenge ==
  /\ sdkEv.op = "createSecureActionUrl" =>
       secureAction.hash = sdkEv.url[2].payload.hash
  /\ (Responded /\ \E k \in Addresses, n \in Nonces \ {sdkEv.found.hash} :
                     sdkEv.task.signature = anyToHex(signPersonalMessage(k, n))) =>
       /\ sdkEv.emitted = <<>>
       /\ ev.send.type = "none"
       /\ secureAction = sdkEv.found

\* C15: whenever the connection reports muted = true the challenge is
\* cleared, and a response handled while no challenge is there emits no
\* LinkAction.
C15_MutedClearsChallenge ==
  /\ [](sdkEv.report => secureAction = NoSecureAction)
  /\ [][(secureAction = NoSecureAction /\ sdkEv'.op = "signedSecureAction")
          => sdkEv'.emitted = <<>>]_vars

\* The report found a challenge and cleared it.
C15_Witness ==
  /\ sdkEv.report
  /\ sdkEv.found # NoSecureAction
  /\ secureAction = NoSecureAction

\* C16: when a valid response resolves the challenge, no challenge is
\* outstanding once the handler has finished.
C16_ResolutionDiscardsChallenge ==
  (sdkEv.op = "signedSecureAction" /\ sdkEv.emitted # <<>>) =>
    secureAction = NoSecureAction

\* C17: after destroySecureAction returns no challenge is outstanding, in
\* every connection state.
C17_CancelDiscardsChallenge ==
  sdkEv.op = "destroySecureAction" => secureAction = NoSecureAction

\* C18: createSecureActionUrl stores {type, hash}, sends an
\* unmute-connection event and returns a Secure link with sender type
\* Device and the stored hash; the challenge is never stored without the
\* unmute having been sent.
C18_ChallengeAndUnmuteTogether ==
  sdkEv.op = "createSecureActionUrl" =>
    /\ secureAction # NoSecureAction
    /\ sdkEv.url[2].type = Secure
    /\ sdkEv.url[2].sender.type = Device
    /\ sdkEv.url[2].payload.hash = secureAction.hash
    /\ ev.send.type = "UnMuteConnection"
    /\ ev.send.frame # NoFrame

\* C19: the handler of an account-updated event that names the local account
\* replaces account and accountDevice attributes together when both fetches
\* return data and leaves both when either returns nothing; before that,
\* and for an event naming another account, both stay, and for another
\* account no fetch is started.
C19_AccountUpdatedAllOrNothing ==
  [][/\ (sdkEv'.op = "accountDeviceFetched" /\ sdkEv'.task.task.kind = "updated") =>
          IF sdkEv'.task.task.got # NoAccount /\ sdkEv'.task.data # NoAccountDevice
            THEN account' = sdkEv'.task.task.got /\ accountDevice' = sdkEv'.task.data
            ELSE account' = account /\ accountDevice' = accountDevice
     /\ (sdkEv'.op = "accountFetched" /\ sdkEv'.task.task.kind = "updated") =>
          (account' = account /\ accountDevice' = accountDevice)
     /\ sdkEv'.op = "accountUpdated" =>
          /\ account' = account /\ accountDevice' = accountDevice
          /\ sdkEv'.task.ensName # accountEnsName(account) => sdkEv'.started = NoTask
    ]_vars

\* Both fetches of an account-updated handler returned data.
C19_Witness ==
  /\ sdkEv.op = "accountDeviceFetched"
  /\ sdkEv.task.task.kind = "updated"
  /\ sdkEv.task.task.got.rev = 2
  /\ account = sdkEv.task.task.got
  /\ accountDevice = [rev |-> 2]

\* An accepted action of kind Secure whose sender is a device.
SecureFromDevice(action) == action.type = Secure /\ action.sender.type = Device

\* The frame of the signed-secure-action event a waiting handler is to send.
SignedFrame(t) ==
  encodeApiEvent([type |-> "SignedSecureAction",
                  payload |-> [recipient |-> t.recipient,
                               signature |-> anyToHex(signPersonalMessage(t.signer,
                                                                          t.hash))]])

\* The handler left the challenge alone; accepting starts the signing of
\* payload.hash for sender.data exactly when the action is Secure from a
\* device, and sends nothing by itself.
AcceptedFrame ==
  /\ sdkEv.op \in {"acceptedAction", "acceptedActionSigned"} =>
       secureAction = sdkEv.found
  /\ sdkEv.op = "acceptedAction" =>
       /\ ev.send.type = "none"
       /\ sdkEv.started =
            IF SecureFromDevice(sdkEv.task)
              THEN [NoTask EXCEPT !.kind = "secure", !.pc = "sign",
                                  !.hash = sdkEv.task.payload.hash,
                                  !.recipient = sdkEv.task.sender.data,
                                  !.signer = address]
              ELSE NoTask
  /\ (sdkEv.op = "acceptedActionSigned" /\ sdkEv.errs = <<"SignFailed">>) =>
       ev.send.type = "none"

\* The signature came and api.signSecureAction was called.
SignedAndCalled == sdkEv.op = "acceptedActionSigned" /\ sdkEv.errs # <<"SignFailed">>

\* C20 as claimed: an accepted Secure action from a device signs the hash of
\* the payload and sends one signed-secure-action event to sender.data; the
\* challenge is never touched; any other sender type sends nothing.
C20_AcceptedSecureSendsOne ==
  /\ AcceptedFrame
  /\ SignedAndCalled => ev.send.frame = SignedFrame(sdkEv.task)

\* C20: ... sends one signed-secure-action event to sender.data when the
\* connection is Opened as the signature arrives; when it is not, the send
\* fails with InvalidConnectionState on error$ and nothing is sent.
C20_AcceptedSecureSignsAndSends ==
  /\ AcceptedFrame
  /\ SignedAndCalled =>
       /\ ev.send.type = "SignedSecureAction"
       /\ IF ev.send.before[2] = Opened
            THEN ev.send.frame = SignedFrame(sdkEv.task) /\ sdkEv.errs = <<>>
            ELSE ev.send.frame = NoFrame /\ sdkEv.errs = <<"InvalidConnectionState">>

\* The signature was sent while this device held a challenge of its own.
C20_Witness ==
  /\ SignedAndCalled
  /\ ev.send.frame = SignedFrame(sdkEv.task)
  /\ secureAction # NoSecureAction

C22_OpenAfterFailureIsNoOp ==
  /\ ev.done.outcome \in FailOutcomes =>
       /\ ev.open = NoOpen
       /\ ~ev.closed
       /\ timers = {}
       /\ ev.done.threw = NULL
  /\ (ev.done.outcome = "ok" /\ endpoints.ws # <<>>) =>
       ev.open.by = "openConnection"

\* C23: one createSession attempt goes setAsVerifying -> hash -> sign ->
\* verify -> setAsVerified: an attempt waiting for the hash holds nothing,
\* one waiting for the signature holds the backend's hash and the device's
\* address, the body of the verify request is that hash, that signer and the
\* signature over that hash, and the session becomes Verified only in the
\* step that receives the token, with that token.
C23_StepsInOrder ==
  /\ [](\A c \in InFlight :
          /\ c.pc \in {"hash", "rejected"} => (c.hash = NULL /\ c.signature = <<>>)
          /\ c.pc = "sign" => (c.hash \in OrderHashes /\ c.signature = <<>>)
          /\ c.pc = "verify" =>
               (c.hash \in OrderHashes
                  /\ c.signature = signPersonalMessage(c.signer, c.hash)))
  /\ [][/\ CreateSession =>
             (session'.state = Verifying /\ session'.token = NULL)
        /\ \A h \in OrderHashes :
             HashResponse(h) =>
               \E c \in BagToSet(calls') :
                 c.pc = "sign" /\ c.hash = h /\ c.signer = address
        /\ \A t \in OrderTokens :
             VerifyResponse(t) => session' = [state |-> Verified, token |-> t]
        /\ (session'.state = Verified /\ session.state # Verified) =>
             ev'.done.outcome = "ok"
       ]_vars

\* An attempt was verified with the second token while another attempt,
\* holding the other hash, waits for its own verify answer.
C23_Witness ==
  /\ ev.done.outcome = "ok"
  /\ session = [state |-> Verified, token |-> "t2"]
  /\ \E c \in InFlight : c.pc = "verify" /\ c.hash = "h1" /\ c.signer = "a2"

\* C24: the connection-muted acknowledgement of a cancel that was issued
\* before the challenge of now was created does not clear that challenge.
C24_LateAckKeepsChallenge ==
  (sdkEv.op = "muteAck" /\ sdkEv.task.late /\ sdkEv.found # NoSecureAction) =>
    secureAction = sdkEv.found

\* C25: when the account-updated handler writes the fetched attributes, the
\* account tracked at that moment is the account it fetched them for.
C25_WritesOnlyTrackedAccount ==
  (/\ sdkEv.op = "accountDeviceFetched"
   /\ sdkEv.task.task.kind = "updated"
   /\ sdkEv.task.task.got # NoAccount
   /\ sdkEv.task.data # NoAccountDevice) =>
    sdkEv.task.tracked = sdkEv.task.task.ensName

\* C26: the account attributes and the account device attributes are both
\* set or both null; an answer to the first lookup changes neither, and
\* joinAccount / createAccount change neither when a lookup returned nothing.
C26_BothOrNeither ==
  /\ []((account = NoAccount) <=> (accountDevice = NoAccountDevice))
  /\ [][/\ sdkEv'.op \in {"accountFetched", "joinAccount", "createAccount",
                          "accountUpdated"} =>
             UNCHANGED <<account, accountDevice>>
        /\ (/\ sdkEv'.op = "accountDeviceFetched"
            /\ sdkEv'.task.task.kind \in {"join", "create"}
            /\ sdkEv'.task.data = NoAccountDevice) =>
             UNCHANGED <<account, accountDevice>>
        /\ sdkEv'.op = "resetAccount" =>
             (account' = NoAccount /\ accountDevice' = NoAccountDevice)
       ]_vars

\* createAccount got the account but no device while another account was
\* set: both attributes stayed.
C26_Witness ==
  /\ sdkEv.op = "accountDeviceFetched"
  /\ sdkEv.task.task.kind = "create"
  /\ sdkEv.task.task.got # NoAccount
  /\ sdkEv.task.data = NoAccountDevice
  /\ account # NoAccount
  /\ accountDevice # NoAccountDevice
  /\ account.ensName # sdkEv.task.task.ensName

====
